---- MODULE Spec2Model ----
(***************************************************************************)
(* Model of mmrl's ReplayLabeller (src/ReplayLabeller.py): the scoring     *)
(* model (compute_time_ll, compute_char_logprob, compute_total_ll), the    *)
(* candidate generator (compute_all_labels), the assignment solver         *)
(* (mip_solve) and the probability estimator (get_indiv_rankings).         *)
(*                                                                         *)
(* Numbers.  Python floats are held in fixed point: a log-likelihood is an *)
(* integer number of thousandths (milli-nats), a probability an integer    *)
(* number of millionths.  float('-inf') is the record NegInf; the only     *)
(* non-finite value the code produces is -inf.  Times are integer seconds  *)
(* as calendar.timegm returns them.                                        *)
(***************************************************************************)
EXTENDS Integers, Sequences, FiniteSets, TLC

VARIABLES
  pc,          \* position of the run: which operation has completed
  matches,     \* self.matches: sequence of match records
  setups,      \* self.setups: sequence of setups, each a sequence of games
  all_labels,  \* output of compute_all_labels: per match, a sequence of <<ll, si, ri>>
  forced,      \* forced_labels argument of the last mip_solve call
  mip,         \* outcome of the last mip_solve call
  rank,        \* outcome of the last get_indiv_rankings call
  sc           \* outcome of the last scoring call (compute_total_ll and its parts)

vars == <<pc, matches, setups, all_labels, forced, mip, rank, sc>>

----------------------------------------------------------------------------
(* Bounds of the model *)

\* longest match (num_games) and longest scored window
MaxGames == 3

----------------------------------------------------------------------------
(* config.py *)

ANNOUNCE_TO_START_MEAN == 60
ANNOUNCE_TO_START_SD == 180
END_TO_REPORT_MEAN == 30
END_TO_REPORT_SD == 180
TIME_SLACK == 300
REQ_NUM_PLAYERS == 2
\* probabilities in millionths
DEFAULT_PROB == 57028
MAIN_CHAR_PROB == 800000
SEC_CHAR_PROB == 100000
\* log-likelihoods in thousandths
NOLABEL_OBJVAL == -25000
\* config.MIN_START_LL and config.MIN_END_LL are read by compute_time_ll but
\* are not set in src/config.py; the spec calls them "a configured floor".
MIN_START_LL == -10000
MIN_END_LL == -10000

----------------------------------------------------------------------------
(* Extended reals: Python floats restricted to finite values and -inf *)

\* x >= r with the comparison made five units too high
XGeq_FiveAbove(x, r) == x.fin /\ x.v >= r + 5000

NegInf == [fin |-> FALSE, v |-> 0]
Fin(x) == [fin |-> TRUE, v |-> x]
\* x + y on floats
XAdd(x, y) == IF x.fin /\ y.fin THEN Fin(x.v + y.v) ELSE NegInf
\* x >= r for a float x and a finite r
XGeq(x, r) == x.fin /\ x.v >= r

Max(x, y) == IF x >= y THEN x ELSE y

RECURSIVE SumSeq(_)
SumSeq(s) == IF s = <<>> THEN 0 ELSE Head(s) + SumSeq(Tail(s))

----------------------------------------------------------------------------
(* Games and ports (data.parse_slp_file) *)

\* a game has four controller ports, each None or {char, dead_at_end}
NumPorts == 4
Ports == 1..NumPorts
None == [occ |-> FALSE, char |-> "NONE", dead_at_end |-> FALSE]
Port(c, d) == [occ |-> TRUE, char |-> c, dead_at_end |-> d]

\* the dict parse_slp_file builds: numplayers counts the occupied ports
MkGame(st, et, ports) ==
  [start_time |-> st, end_time |-> et, ports |-> ports,
   numplayers |-> Cardinality({i \in Ports : ports[i].occ})]

----------------------------------------------------------------------------
(* compute_time_ll *)

time_diff(dt1, dt2) == dt1 - dt2

\* 1000 * ln(sd * sqrt(2 pi)) for sd = 180
LOG_NORM_C == 6112
\* 1000 * ln of the density of norm(mean, sd) at x:
\* -1000 (x - mean)^2 / (2 sd^2) - 1000 ln(sd sqrt(2 pi)), the quotient
\* reduced by 200 to stay within TLC's 32-bit integers
LogPdf(x, mean, sd) ==
  0 - ((5 * (x - mean) * (x - mean)) \div ((sd * sd) \div 100)) - LOG_NORM_C
\* a double below exp(-745.133) is 0.0: norm.pdf underflows in the far tail
DBL_UNDERFLOW_LOG == 745133
PdfIsZero(x, mean, sd) == LogPdf(x, mean, sd) < 0 - DBL_UNDERFLOW_LOG

\* compute_time_ll with the slack test written <= instead of <
compute_time_ll_SlackLeq(match, replays) ==
  LET start_diff == time_diff(replays[1].start_time, match.started_at)
      end_diff == time_diff(match.completed_at, replays[Len(replays)].end_time)
  IN IF start_diff <= 0 - TIME_SLACK \/ end_diff <= 0 - TIME_SLACK
       THEN NegInf
     ELSE IF PdfIsZero(start_diff, ANNOUNCE_TO_START_MEAN, ANNOUNCE_TO_START_SD)
             \/ PdfIsZero(end_diff, END_TO_REPORT_MEAN, END_TO_REPORT_SD)
       THEN NegInf
     ELSE Fin(Max(MIN_START_LL,
                  LogPdf(start_diff, ANNOUNCE_TO_START_MEAN, ANNOUNCE_TO_START_SD))
              + Max(MIN_END_LL,
                    LogPdf(end_diff, END_TO_REPORT_MEAN, END_TO_REPORT_SD)))

compute_time_ll(match, replays) ==
  LET start_diff == time_diff(replays[1].start_time, match.started_at)
      end_diff == time_diff(match.completed_at, replays[Len(replays)].end_time)
  IN IF start_diff < 0 - TIME_SLACK \/ end_diff < 0 - TIME_SLACK
       THEN NegInf
     ELSE IF PdfIsZero(start_diff, ANNOUNCE_TO_START_MEAN, ANNOUNCE_TO_START_SD)
             \/ PdfIsZero(end_diff, END_TO_REPORT_MEAN, END_TO_REPORT_SD)
       THEN NegInf
     ELSE Fin(Max(MIN_START_LL,
                  LogPdf(start_diff, ANNOUNCE_TO_START_MEAN, ANNOUNCE_TO_START_SD))
              + Max(MIN_END_LL,
                    LogPdf(end_diff, END_TO_REPORT_MEAN, END_TO_REPORT_SD)))

----------------------------------------------------------------------------
(* Players: self.playerid_map, data.tag_fingerprint, self.main_map *)

\* challonge player id -> display name
playerid_map == (1 :> "Ann") @@ (2 :> "B ob") @@ (3 :> "Cy") @@ (4 :> "Dee")
PlayerIds == DOMAIN playerid_map

\* tag.lower().replace(' ', '') on the display names above
tag_fingerprint(tag) ==
  CASE tag = "Ann" -> "ann"
    [] tag = "B ob" -> "bob"
    [] tag = "Cy" -> "cy"
    [] tag = "Dee" -> "dee"

\* fingerprint -> <<mains, secondaries>>, as parse_player_file builds it;
\* "dee" has no row, "cy" a row with no mains
main_map ==
  ("ann" :> <<{"FOX"}, {"MARTH"}>>) @@
  ("bob" :> <<{"FOX", "MARTH"}, {}>>) @@
  ("cy" :> <<{}, {"MARTH"}>>)

\* 1000 * math.log(p / 10^6) at the probabilities the scoring can form
Log(p) ==
  CASE p = 900000 -> -105
    [] p = 800000 -> -223
    [] p = 450000 -> -799
    [] p = 400000 -> -916
    [] p = 100000 -> -2303
    [] p = 57028 -> -2864
    [] p = 50000 -> -2996
    [] p = 5702 -> -5167

----------------------------------------------------------------------------
(* compute_char_logprob *)

OccPorts(game) == {i \in Ports : game.ports[i].occ}

\* sum([not game['ports'][p]['dead_at_end'] for game in replays])
Wins(replays, p) ==
  Cardinality({k \in DOMAIN replays : ~replays[k].ports[p].dead_at_end})

\* the contribution of one player (the body of "for player in [1,2]")
PlayerLogprob(match, replays, player, port) ==
  LET id == IF player = 1 THEN match.player1_id ELSE match.player2_id
      tagfp == tag_fingerprint(playerid_map[id])
  IN IF tagfp \notin DOMAIN main_map THEN Log(DEFAULT_PROB)
     ELSE
       LET mains == main_map[tagfp][1]
           secs == main_map[tagfp][2]
           nm == Cardinality(mains)
           ns == Cardinality(secs)
           main_prob == IF ns = 0 THEN MAIN_CHAR_PROB + SEC_CHAR_PROB
                        ELSE IF nm = 0 THEN 0 ELSE MAIN_CHAR_PROB
           sec_prob == IF ns = 0 THEN 0
                       ELSE IF nm = 0 THEN MAIN_CHAR_PROB + SEC_CHAR_PROB
                       ELSE SEC_CHAR_PROB
           term(k) ==
             LET c == replays[k].ports[port].char
             IN IF c \in mains THEN Log(main_prob \div nm) \div Len(replays)
                ELSE IF c \in secs THEN Log(sec_prob \div ns) \div Len(replays)
                ELSE Log((((1000000 - main_prob - sec_prob) \div 1000) * DEFAULT_PROB)
                           \div 1000)
                       \div Len(replays)
       IN IF nm = 0 /\ ns = 0 THEN Log(DEFAULT_PROB)
          ELSE SumSeq([k \in DOMAIN replays |-> term(k)])

\* the winner rule with the tie given to port a
WinnerPort_TieToA(a, b, awins, bwins) == IF awins >= bwins THEN a ELSE b

\* the winner port of the window: "a if awins > bwins else b"
WinnerPort(a, b, awins, bwins) == IF awins > bwins THEN a ELSE b

compute_char_logprob(match, replays) ==
  LET portsets == {OccPorts(replays[k]) : k \in DOMAIN replays}
  IN IF Cardinality(portsets) > 1 THEN NegInf
     ELSE
       LET ps == CHOOSE s \in portsets : TRUE
           a == CHOOSE i \in ps : \A j \in ps : i <= j
           b == CHOOSE i \in ps : \A j \in ps : i >= j
           awins == Wins(replays, a)
           bwins == Wins(replays, b)
           fwd == awins = match.player1_score /\ bwins = match.player2_score
           bwd == awins = match.player2_score /\ bwins = match.player1_score
           p1port == IF fwd THEN a ELSE b
           p2port == IF fwd THEN b ELSE a
           winner == WinnerPort(a, b, awins, bwins)
       IN IF ~fwd /\ ~bwd THEN NegInf
          ELSE IF replays[Len(replays)].ports[winner].dead_at_end THEN NegInf
          ELSE Fin(PlayerLogprob(match, replays, 1, p1port)
                   + PlayerLogprob(match, replays, 2, p2port))

\* compute_total_ll
compute_total_ll(match, replays) ==
  XAdd(compute_time_ll(match, replays), compute_char_logprob(match, replays))

----------------------------------------------------------------------------
(* Values of the variables before the operation that sets them has run *)

NoMip == [status |-> "none"]
NoRank == [out |-> [status |-> "none"]]
NoScore == [status |-> "none"]

\* a challonge match as fetch_brackets_to_file leaves it:
\* num_games = player1_score + player2_score, and only matches with
\* num_games > 0 are kept
MkMatch(p1, p2, s1, s2, st, ct) ==
  [player1_id |-> p1, player2_id |-> p2, player1_score |-> s1,
   player2_score |-> s2, num_games |-> s1 + s2,
   started_at |-> st, completed_at |-> ct]

\* final scores of the matches of the model
ScorePairs == {sp \in (0..MaxGames) \X (0..MaxGames) :
                 sp[1] + sp[2] >= 1 /\ sp[1] + sp[2] <= MaxGames}

----------------------------------------------------------------------------
(* compute_all_labels *)

\* Python's order on the tuples (ll, si, ri): x > y
TupleGt(x, y) ==
  \/ x[1] > y[1]
  \/ x[1] = y[1] /\ x[2] > y[2]
  \/ x[1] = y[1] /\ x[2] = y[2] /\ x[3] > y[3]

RECURSIVE InsertDesc(_, _)
InsertDesc(x, s) ==
  IF s = <<>> THEN <<x>>
  ELSE IF TupleGt(x, Head(s)) THEN <<x>> \o s
  ELSE <<Head(s)>> \o InsertDesc(x, Tail(s))

\* lbls.sort(reverse=True)
RECURSIVE SortDesc(_)
SortDesc(s) == IF s = <<>> THEN <<>> ELSE InsertDesc(Head(s), SortDesc(Tail(s)))

\* the "for ri" loop with the window test off by one: the last window of a
\* setup is skipped
RECURSIVE ScanReplays_FitOffByOne(_, _, _, _)
ScanReplays_FitOffByOne(match, sups, si, ri) ==
  LET reps == sups[si + 1].replays
      ngames == match.num_games
  IN IF ri >= Len(reps) THEN <<>>
     ELSE
       LET rest == ScanReplays_FitOffByOne(match, sups, si, ri + 1)
       IN IF Len(reps) <= ri + ngames THEN rest
          ELSE
            LET replays == SubSeq(reps, ri + 1, ri + ngames)
            IN IF \E k \in DOMAIN replays : replays[k].numplayers # REQ_NUM_PLAYERS
                 THEN rest
               ELSE
                 LET total_ll == compute_total_ll(match, replays)
                 IN IF XGeq(total_ll, NOLABEL_OBJVAL)
                      THEN <<<<total_ll.v, si, ri>>>> \o rest
                    ELSE rest

\* the "for ri, replay in enumerate(setup['replays'])" loop from index ri on:
\* the triples it appends for setup si (si and ri count from 0 as in the code)
RECURSIVE ScanReplays(_, _, _, _)
ScanReplays(match, sups, si, ri) ==
  LET reps == sups[si + 1].replays
      ngames == match.num_games
  IN IF ri >= Len(reps) THEN <<>>
     ELSE
       LET rest == ScanReplays(match, sups, si, ri + 1)
       IN IF Len(reps) <= ri + ngames - 1 THEN rest
          ELSE
            LET replays == SubSeq(reps, ri + 1, ri + ngames)
            IN IF \E k \in DOMAIN replays : replays[k].numplayers # REQ_NUM_PLAYERS
                 THEN rest
               ELSE
                 LET total_ll == compute_total_ll(match, replays)
                 IN IF XGeq(total_ll, NOLABEL_OBJVAL)
                      THEN <<<<total_ll.v, si, ri>>>> \o rest
                    ELSE rest

\* the "for si, setup in enumerate(self.setups)" loop from index si on
RECURSIVE ScanSetups(_, _, _)
ScanSetups(match, sups, si) ==
  IF si >= Len(sups) THEN <<>>
  ELSE ScanReplays(match, sups, si, 0) \o ScanSetups(match, sups, si + 1)

\* all_labels: entry mi + 1 holds the sorted labels of match mi
compute_all_labels(ms, sups) ==
  [i \in 1..Len(ms) |-> SortDesc(ScanSetups(ms[i], sups, 0))]

----------------------------------------------------------------------------
(* mip_solve: the integer program handed to glpk *)

\* Python's None in a forced pair (mi, None), and soln[mi] = None
NoneTag == "None"
NoLabel == <<>>

\* lvars in insertion order: entry j is the key (mi, si, ri) and the score of
\* glpk column j (mi counts from 0)
RECURSIVE LabelVars(_, _)
LabelVars(al, i) ==
  IF i > Len(al) THEN <<>>
  ELSE [k \in 1..Len(al[i]) |->
          [mi |-> i - 1, si |-> al[i][k][2], ri |-> al[i][k][3], ll |-> al[i][k][1]]]
       \o LabelVars(al, i + 1)

PairLt(x, y) == x[1] < y[1] \/ (x[1] = y[1] /\ x[2] < y[2])

RECURSIVE PairSeq(_)
PairSeq(S) ==
  IF S = {} THEN <<>>
  ELSE LET m == CHOOSE x \in S : \A y \in S \ {x} : PairLt(x, y)
       IN <<m>> \o PairSeq(S \ {m})

\* replays = list({(si, ri) for lbls in all_labels for _, si, ri in lbls}),
\* listed in increasing order (the code's order is that of a Python set; the
\* rows are the same)
ReplayList(al) ==
  LET lv == LabelVars(al, 1)
  IN PairSeq({<<lv[j].si, lv[j].ri>> : j \in DOMAIN lv})

\* the columns with glp_set_obj_coef of an unlabelled variable reached only
\* on the branch that does not force it
MipCols_ForcedNoCoef(ms, al, fl) ==
  LET lv == LabelVars(al, 1)
  IN [j \in 1..(Len(lv) + Len(ms)) |->
        IF j <= Len(lv)
          THEN [kind |-> "IV",
                lb |-> IF <<lv[j].mi, lv[j].si, lv[j].ri>> \in fl THEN 1 ELSE 0,
                ub |-> 1,
                obj |-> lv[j].ll]
        ELSE [kind |-> "CV",
              lb |-> IF <<j - Len(lv) - 1, NoneTag>> \in fl THEN 1 ELSE 0,
              ub |-> 1,
              obj |-> IF <<j - Len(lv) - 1, NoneTag>> \in fl THEN 0 ELSE NOLABEL_OBJVAL]]

\* the columns with no objective coefficient on the unlabelled variables
MipCols_NoUnlabelledCoef(ms, al, fl) ==
  LET lv == LabelVars(al, 1)
  IN [j \in 1..(Len(lv) + Len(ms)) |->
        IF j <= Len(lv)
          THEN [kind |-> "IV",
                lb |-> IF <<lv[j].mi, lv[j].si, lv[j].ri>> \in fl THEN 1 ELSE 0,
                ub |-> 1,
                obj |-> lv[j].ll]
        ELSE [kind |-> "CV",
              lb |-> IF <<j - Len(lv) - 1, NoneTag>> \in fl THEN 1 ELSE 0,
              ub |-> 1,
              obj |-> 0]]

\* the columns: one integer variable per label, one continuous variable per
\* match; GLP_FX 1.0 when forced, else GLP_DB 0.0..1.0
MipCols(ms, al, fl) ==
  LET lv == LabelVars(al, 1)
  IN [j \in 1..(Len(lv) + Len(ms)) |->
        IF j <= Len(lv)
          THEN [kind |-> "IV",
                lb |-> IF <<lv[j].mi, lv[j].si, lv[j].ri>> \in fl THEN 1 ELSE 0,
                ub |-> 1,
                obj |-> lv[j].ll]
        ELSE [kind |-> "CV",
              lb |-> IF <<j - Len(lv) - 1, NoneTag>> \in fl THEN 1 ELSE 0,
              ub |-> 1,
              obj |-> NOLABEL_OBJVAL]]

\* a match row bounded above only: GLP_UP 1.0
MatchRow_UpperOnly == [type |-> "UP", ub |-> 1]
\* the bounds of a match row: GLP_FX 1.0
MatchRow == [type |-> "FX", ub |-> 1]

\* the rows: "M<mi>=1" per match, then "s<si>r<ri><=1" per replay
MipRows(ms, al) ==
  [i \in 1..(Len(ms) + Len(ReplayList(al))) |->
     IF i <= Len(ms) THEN MatchRow ELSE [type |-> "UP", ub |-> 1]]

\* a replay row taking only the labels whose window starts at game ri
Covers_StartOnly(ms, v, si, ri) == v.si = si /\ v.ri = ri

\* a replay row taking also the labels whose window ends just before game ri
Covers_OneGameMore(ms, v, si, ri) ==
  v.si = si /\ v.ri <= ri /\ ri <= v.ri + ms[v.mi + 1].num_games

\* a replay row takes the labels whose window covers game ri of setup si
Covers(ms, v, si, ri) ==
  v.si = si /\ v.ri <= ri /\ ri < v.ri + ms[v.mi + 1].num_games

\* the (row, column) pairs passed to add_cm_entry, in call order; every value
\* is 1.0
MipEntries(ms, al) ==
  LET lv == LabelVars(al, 1)
      reps == ReplayList(al)
      idx == [j \in 1..Len(lv) |-> j]
      matchrow(i) ==
        LET sel == SelectSeq(idx, LAMBDA j : lv[j].mi = i - 1)
        IN <<<<i, Len(lv) + (i - 1) + 1>>>> \o [k \in 1..Len(sel) |-> <<i, sel[k]>>]
      reprow(r) ==
        LET sel == SelectSeq(idx, LAMBDA j : Covers(ms, lv[j], reps[r][1], reps[r][2]))
        IN [k \in 1..Len(sel) |-> <<Len(ms) + r, sel[k]>>]
      RECURSIVE matchrows(_), reprows(_)
      matchrows(i) == IF i > Len(ms) THEN <<>> ELSE matchrow(i) \o matchrows(i + 1)
      reprows(r) == IF r > Len(reps) THEN <<>> ELSE reprow(r) \o reprows(r + 1)
  IN matchrows(1) \o reprows(1)

\* N: the number of variables
N(ms, al) == Len(LabelVars(al, 1)) + Len(ms)

\* M: the number of constraints
M(ms, al) == Len(ms) + Len(ReplayList(al))

\* nze: the capacity of ia, ja and ar, whose slots 1..nze take the entries
nze(ms, al) ==
  SumSeq([i \in 1..Len(ms) |-> (ms[i].num_games + 1) * Len(al[i]) + 1])

\* the problem object after glp_load_matrix
MipProblem(ms, al, fl) ==
  [cols |-> MipCols(ms, al, fl), rows |-> MipRows(ms, al), entries |-> MipEntries(ms, al)]

----------------------------------------------------------------------------
(* glp_intopt: the backend, as any exact solver of the problem it is given. *)
(* Column values are held doubled, so that a continuous column can take the *)
(* value one half: 0, 1 and 2 stand for 0.0, 0.5 and 1.0.                   *)

\* the values of a column when the lower bound of an integer column is
\* taken to be 0
ColDom_NoLowerBound(c) ==
  IF c.kind = "IV" THEN {2 * v : v \in 0..c.ub}
  ELSE {v \in 0..2 : 2 * c.lb <= v /\ v <= 2 * c.ub}

\* the values a column may take, doubled
ColDom(c) ==
  IF c.kind = "IV" THEN {2 * v : v \in c.lb..c.ub}
  ELSE {v \in 0..2 : 2 * c.lb <= v /\ v <= 2 * c.ub}

\* all assignments of the first j columns within their bounds and kinds
RECURSIVE Assignments(_, _)
Assignments(cols, j) ==
  IF j = 0 THEN {<<>>}
  ELSE {Append(x, v) : x \in Assignments(cols, j - 1), v \in ColDom(cols[j])}

\* the doubled activity of a row whose entries are rowentries
RowAct(rowentries, x) ==
  SumSeq([k \in DOMAIN rowentries |-> x[rowentries[k][2]]])

RowOk(row, act) ==
  IF row.type = "FX" THEN act = 2 * row.ub ELSE act <= 2 * row.ub

Feasible(prob) ==
  LET byrow == [i \in DOMAIN prob.rows |-> SelectSeq(prob.entries, LAMBDA e : e[1] = i)]
  IN {x \in Assignments(prob.cols, Len(prob.cols)) :
        \A i \in DOMAIN prob.rows : RowOk(prob.rows[i], RowAct(byrow[i], x))}

\* the objective, not doubled (the optimum of a feasible problem is integral)
ObjVal(prob, x) == SumSeq([j \in DOMAIN x |-> prob.cols[j].obj * x[j]]) \div 2

\* glp_set_obj_dir(mip, GLP_MAX): objective a is at least as good as b
Better(a, b) == a >= b

Optimal(prob) ==
  LET F == Feasible(prob)
      val == [x \in F |-> ObjVal(prob, x)]
  IN {x \in F : \A y \in F : Better(val[x], val[y])}

----------------------------------------------------------------------------
(* mip_solve: reading the solution back *)

\* soln: for every label variable whose value is 1, soln[mi] = (ll, si, ri);
\* a later variable of the same match overwrites an earlier one
Extract(ms, al, x) ==
  LET lv == LabelVars(al, 1)
  IN [i \in 1..Len(ms) |->
        LET js == {j \in 1..Len(lv) : lv[j].mi = i - 1 /\ x[j] = 2}
        IN IF js = {} THEN NoLabel
           ELSE LET j == CHOOSE j \in js : \A k \in js : k <= j
                IN <<lv[j].ll, lv[j].si, lv[j].ri>>]

\* The outcomes of one call.  mip_solve never looks at what glp_intopt
\* returns.  When the problem has a solution the columns hold an optimal one.
\* When it has none, glp_mip_col_val and glp_mip_obj_val read values that no
\* solve has set: the zeros of a fresh problem object (the call then returns
\* an all-None soln with objval 0), or anything else, which the assertion
\* "val in [0,1]" may reject.
mip_solve(ms, al, fl) ==
  LET prob == MipProblem(ms, al, fl)
      opt == Optimal(prob)
      nlv == Len(LabelVars(al, 1))
  IN IF opt # {}
       THEN {IF \A j \in 1..nlv : x[j] \in {0, 2}
               THEN [status |-> "returned", feasible |-> TRUE, objval |-> ObjVal(prob, x),
                     soln |-> Extract(ms, al, x), x |-> x]
             ELSE [status |-> "AssertionError", feasible |-> TRUE] : x \in opt}
     ELSE {[status |-> "returned", feasible |-> FALSE, objval |-> 0,
            soln |-> Extract(ms, al, [j \in DOMAIN prob.cols |-> 0]),
            x |-> [j \in DOMAIN prob.cols |-> 0]],
           [status |-> "AssertionError", feasible |-> FALSE]}

\* the objective value a call returns when its problem has a solution
MipObjval(ms, al, fl) ==
  (CHOOSE o \in mip_solve(ms, al, fl) : o.status = "returned").objval

\* every element a forced_labels set can usefully hold: (mi, None) for each
\* match and (mi, si, ri) for each label
ForcedUniverse(ms, al) ==
  LET lv == LabelVars(al, 1)
  IN {<<i - 1, NoneTag>> : i \in 1..Len(ms)}
     \cup {<<lv[j].mi, lv[j].si, lv[j].ri>> : j \in DOMAIN lv}

\* the forced_labels sets of the model: at most two elements
ForcedChoices(ms, al) ==
  {fl \in SUBSET ForcedUniverse(ms, al) : Cardinality(fl) <= 2}

----------------------------------------------------------------------------
(* get_indiv_rankings *)

\* math.exp(d / 1000) for d <= 0, in ten-thousandths: e^-1 per whole unit,
\* and the series 1 - r + r^2/2 - r^3/6 for the remainder
RECURSIVE ExpWhole(_)
ExpWhole(k) == IF k = 0 THEN 10000 ELSE (ExpWhole(k - 1) * 3679) \div 10000
ExpNeg(d) ==
  LET k == (0 - d) \div 1000
      r == (0 - d) % 1000
      frac == 10000 - 10 * r + (r * r) \div 200 - (((r * r) \div 1000) * r) \div 600
  IN IF k > 20 THEN 0 ELSE (ExpWhole(k) * frac) \div 10000

\* A row [value, si, ri] of the ranking.  key orders the values exactly: the
\* objective, in thousandths.  After normalisation the value is the
\* probability exp(key - mean) / total_l, which grows strictly with key; p
\* holds it in ten-thousandths.  none marks the row [value, None, None].
Row(key, si, ri, none) == [key |-> key, p |-> 0, si |-> si, ri |-> ri, none |-> none]

\* "x < y" on two rows as Python compares lists: the values first; when they
\* are equal, si and then ri, and None against an int raises TypeError
RowLt(x, y) ==
  IF x.key # y.key THEN (IF x.key < y.key THEN "lt" ELSE "ge")
  ELSE IF x.none /\ y.none THEN "ge"
  ELSE IF x.none # y.none THEN "TypeError"
  ELSE IF PairLt(<<x.si, x.ri>>, <<y.si, y.ri>>) THEN "lt" ELSE "ge"

Reverse(a) == [k \in 1..Len(a) |-> a[Len(a) + 1 - k]]

\* count_run of listsort: the length of the run that starts the list, 0 when
\* a comparison raised; desc tells whether the run descends strictly
RECURSIVE RunFrom(_, _, _)
RunFrom(a, k, desc) ==
  IF k > Len(a) THEN k - 1
  ELSE LET c == RowLt(a[k], a[k - 1])
       IN IF c = "TypeError" THEN 0
          ELSE IF (c = "lt") = desc THEN RunFrom(a, k + 1, desc)
          ELSE k - 1

\* the binary search of binarysort: where pivot goes in a[l..r-1], 0 when a
\* comparison raised
RECURSIVE BinFind(_, _, _, _)
BinFind(a, pivot, l, r) ==
  IF l >= r THEN l
  ELSE LET m == l + (r - l) \div 2
           c == RowLt(pivot, a[m])
       IN IF c = "TypeError" THEN 0
          ELSE IF c = "lt" THEN BinFind(a, pivot, l, m)
          ELSE BinFind(a, pivot, m + 1, r)

\* binarysort from index start on: the sorted list, err when a comparison
\* raised
RECURSIVE BinSort(_, _)
BinSort(a, start) ==
  IF start > Len(a) THEN [err |-> FALSE, a |-> a]
  ELSE LET pos == BinFind(a, a[start], 1, start)
       IN IF pos = 0 THEN [err |-> TRUE, a |-> a]
          ELSE BinSort(SubSeq(a, 1, pos - 1) \o <<a[start]>> \o SubSeq(a, pos, start - 1)
                         \o SubSeq(a, start + 1, Len(a)),
                       start + 1)

\* labels.sort(reverse=True) as CPython sorts a short list: reverse, find the
\* first run (reversing it when it descends), insert the rest by binary
\* search, reverse again.  err when a comparison raised TypeError.
ListSortReverse(labels) ==
  IF Len(labels) < 2 THEN [err |-> FALSE, a |-> labels]
  ELSE
    LET a == Reverse(labels)
        c == RowLt(a[2], a[1])
        run == RunFrom(a, 3, c = "lt")
        b == IF c = "lt" THEN Reverse(SubSeq(a, 1, run)) \o SubSeq(a, run + 1, Len(a))
             ELSE a
    IN IF c = "TypeError" \/ run = 0 THEN [err |-> TRUE, a |-> labels]
       ELSE LET sorted == BinSort(b, run + 1)
            IN [err |-> sorted.err, a |-> Reverse(sorted.a)]

\* the objective values get_indiv_rankings asks mip_solve for: one solve per
\* label of match mi with that label forced, and one with (mi, None) forced,
\* whose row comes last
ProfileRows(ms, al, mi) ==
  [k \in 1..Len(al[mi + 1]) |->
     Row(MipObjval(ms, al, {<<mi, al[mi + 1][k][2], al[mi + 1][k][3]>>}),
         al[mi + 1][k][2], al[mi + 1][k][3], FALSE)]
  \o <<Row(MipObjval(ms, al, {<<mi, NoneTag>>}), 0, 0, TRUE)>>

\* the softmax of the rows: the mean is subtracted before exp only to keep
\* exp in range and cancels in the quotient; the model subtracts the largest
\* key
Normalised(labels) ==
  LET top == CHOOSE k \in {labels[i].key : i \in DOMAIN labels} :
               \A i \in DOMAIN labels : labels[i].key <= k
      total_l == SumSeq([i \in DOMAIN labels |-> ExpNeg(labels[i].key - top)])
  IN [i \in DOMAIN labels |->
        [labels[i] EXCEPT !.p = (ExpNeg(labels[i].key - top) * 10000) \div total_l]]

\* the outcome of get_indiv_rankings(all_labels, mi, include_nolabel,
\* normalize, threshold), profile being ProfileRows of the match; the row of
\* (mi, None) is solved for and appended only when include_nolabel is set.
\* threshold is in ten-thousandths.
get_indiv_rankings(profile, include_nolabel, normalize, threshold) ==
  LET labels == IF include_nolabel THEN profile
                ELSE SubSeq(profile, 1, Len(profile) - 1)
  IN IF ~normalize
       THEN [status |-> "returned",
             rows |-> SelectSeq(labels, LAMBDA r : r.key * 10 >= threshold)]
     ELSE IF Len(labels) = 0 THEN [status |-> "ZeroDivisionError"]
     ELSE LET sorted == ListSortReverse(Normalised(labels))
          IN IF sorted.err THEN [status |-> "TypeError"]
             ELSE [status |-> "returned",
                   rows |-> SelectSeq(sorted.a, LAMBDA r : r.p >= threshold)]

----------------------------------------------------------------------------
(* Specification SpecScore: one match scored against one window *)

\* the two occupied ports of the games of a window (repeated cyclically):
\* the same pair throughout, or a pair that changes from game to game
PortPlans == {<<<<1, 2>>>>, <<<<2, 4>>>>, <<<<1, 2>>, <<2, 4>>>>}
\* what a player picks over the games of a window (repeated cyclically)
CharPlans == {<<"FOX">>, <<"MARTH">>, <<"FOX", "FALCO">>}
PlanChar(plan, k) == plan[((k - 1) % Len(plan)) + 1]
\* who plays whom
PlayerPairs == {<<1, 2>>, <<2, 3>>, <<3, 4>>, <<4, 1>>}
\* time differences (seconds) around the slack bound and the far tail
TimeVals == {-301, -300, -299, 0, 60, 600, 6950, 6951, 6980, 6981, 20000}
\* a games lasts this long, and the first game of a window starts at this time
GameSecs == 400
WindowStart == 1000000

\* the ports of a game: lo and hi occupied, the others None
TwoPorts(pp, clo, dlo, chi, dhi) ==
  [i \in Ports |-> IF i = pp[1] THEN Port(clo, dlo)
                   ELSE IF i = pp[2] THEN Port(chi, dhi) ELSE None]

\* a window of n games: game k occupies the ports of the port plan, with
\* dead flags deads[k] and the characters of the two character plans
MkWindow(n, pplan, deads, planlo, planhi) ==
  [k \in 1..n |->
     MkGame(WindowStart + (k - 1) * GameSecs, WindowStart + k * GameSecs,
            TwoPorts(PlanChar(pplan, k), PlanChar(planlo, k), deads[k][1],
                     PlanChar(planhi, k), deads[k][2]))]

\* the match whose recorded times differ from the window's by sd and ed
MatchFor(pl, sp, w, sd, ed) ==
  MkMatch(pl[1], pl[2], sp[1], sp[2],
          w[1].start_time - sd, w[Len(w)].end_time + ed)

InitScoreChars ==
  \E sp \in ScorePairs, pl \in PlayerPairs, planlo \in CharPlans, planhi \in CharPlans,
     sd \in {0, -301} :
    \E pps \in PortPlans,
       deads \in [1..(sp[1] + sp[2]) -> BOOLEAN \X BOOLEAN] :
      LET w == MkWindow(sp[1] + sp[2], pps, deads, planlo, planhi)
      IN /\ matches = <<MatchFor(pl, sp, w, sd, 0)>>
         /\ setups = <<[replays |-> w]>>

InitScoreTimes ==
  \E sd \in TimeVals, ed \in TimeVals, sp \in {<<1, 0>>, <<0, 1>>} :
    LET w == MkWindow(1, <<<<1, 2>>>>, <<<<FALSE, TRUE>>>>, <<"FOX">>, <<"MARTH">>)
    IN /\ matches = <<MatchFor(<<1, 2>>, sp, w, sd, ed)>>
       /\ setups = <<[replays |-> w]>>

InitScore ==
  /\ pc = "start"
  /\ InitScoreChars \/ InitScoreTimes
  /\ all_labels = <<>>
  /\ forced = {}
  /\ mip = NoMip
  /\ rank = NoRank
  /\ sc = NoScore

\* compute_total_ll(match, replays) and the two calls it makes
Score ==
  /\ pc = "start"
  /\ pc' = "scored"
  /\ sc' = [status |-> "done",
            time_ll |-> compute_time_ll(matches[1], setups[1].replays),
            char_logprob |-> compute_char_logprob(matches[1], setups[1].replays),
            total_ll |-> compute_total_ll(matches[1], setups[1].replays)]
  /\ UNCHANGED <<matches, setups, all_labels, forced, mip, rank>>

NextScore == Score

SpecScore == InitScore /\ [][NextScore]_vars

----------------------------------------------------------------------------
(* Specification Spec: a labelling run (mmrl.py with -l): compute_all_labels, *)
(* then mip_solve on its output                                              *)

\* the recorded games of the model: two players on ports 1 and 2, port 1 or
\* port 2 winning, port 1 on an off character, or three players
GameKinds == {"AW", "BW", "3P"}
KindPorts(kind) ==
  CASE kind = "AW" -> TwoPorts(<<1, 2>>, "FOX", FALSE, "MARTH", TRUE)
    [] kind = "BW" -> TwoPorts(<<1, 2>>, "FOX", TRUE, "MARTH", FALSE)
    [] kind = "3P" -> [i \in Ports |-> IF i <= 3 THEN Port("FOX", i # 1) ELSE None]

\* a setup: its games follow one another (parse_slp_drive sorts by start_time)
MkSetup(kinds) ==
  [replays |->
     [k \in 1..Len(kinds) |->
        MkGame(WindowStart + (k - 1) * GameSecs, WindowStart + k * GameSecs,
               KindPorts(kinds[k]))]]

\* games per setup
MaxReplays == 3
SetupKinds == UNION {[1..n -> GameKinds] : n \in 0..MaxReplays}

\* when a match was played: it started with game a + 1 of a setup and was
\* reported b game lengths (and 30 s) after its last game
TimePlans == {<<0, 0>>, <<0, 1>>, <<0, 4>>, <<50, 0>>}
PlannedMatch(pl, sp, tp) ==
  MkMatch(pl[1], pl[2], sp[1], sp[2],
          WindowStart + tp[1] * GameSecs,
          WindowStart + (tp[1] + sp[1] + sp[2] + tp[2]) * GameSecs + 30)

\* final scores reported winner first
WinnerFirst == {sp \in ScorePairs : sp[1] >= sp[2]}

Init ==
  /\ pc = "start"
  /\ \E sp1 \in WinnerFirst, tp1 \in TimePlans :
       \/ matches = <<PlannedMatch(<<1, 4>>, sp1, tp1)>>
       \/ \E sp2 \in {<<1, 0>>, <<2, 0>>} :
            matches = <<PlannedMatch(<<1, 4>>, sp1, tp1),
                        PlannedMatch(<<3, 2>>, sp2, <<0, 1>>)>>
  /\ \E k1 \in SetupKinds :
       \/ setups = <<MkSetup(k1)>>
       \/ Len(k1) <= 2 /\ setups = <<MkSetup(k1), MkSetup(<<"AW">>)>>
  /\ all_labels = <<>>
  /\ forced = {}
  /\ mip = NoMip
  /\ rank = NoRank
  /\ sc = NoScore

ComputeAllLabels ==
  /\ pc = "start"
  /\ pc' = "labelled"
  /\ all_labels' = compute_all_labels(matches, setups)
  /\ UNCHANGED <<matches, setups, forced, mip, rank, sc>>

MipSolve ==
  /\ pc = "labelled"
  /\ pc' = "solved"
  /\ \E fl \in ForcedChoices(matches, all_labels) :
       /\ forced' = fl
       /\ mip' \in mip_solve(matches, all_labels, fl)
  /\ UNCHANGED <<matches, setups, all_labels, rank, sc>>

\* one call of get_indiv_rankings on the labels (get_all_labels_probs makes
\* one per match)
GetIndivRankings ==
  /\ pc = "labelled"
  /\ pc' = "ranked"
  /\ \E mi \in 0..(Len(matches) - 1) :
       \E profile \in {ProfileRows(matches, all_labels, mi)} :
          \E include_nolabel \in BOOLEAN, normalize \in BOOLEAN, threshold \in {0, 500} :
            rank' = [mi |-> mi, include_nolabel |-> include_nolabel,
                     normalize |-> normalize, threshold |-> threshold,
                     out |-> get_indiv_rankings(profile, include_nolabel, normalize,
                                                threshold)]
  /\ UNCHANGED <<matches, setups, all_labels, forced, mip, sc>>

Next == ComputeAllLabels \/ MipSolve \/ GetIndivRankings

Spec == Init /\ [][Next]_vars

----------------------------------------------------------------------------
(* Specification SpecMip: mip_solve on any candidate set.  all_labels is    *)
(* drawn from the lists compute_all_labels can return: per match, distinct  *)
(* windows inside the setup, scores at least NOLABEL_OBJVAL, sorted.        *)

\* labels per match
MaxCands == 2
\* the scores of the labels: the no-label value itself and two above it
LLVals == {NOLABEL_OBJVAL, -20000, -13000}
\* the setup of these runs
MipSetup == MkSetup(<<"AW", "AW", "AW">>)
\* the lengths of the matches of these runs
MipGames == {1, 2}

RECURSIVE TripleSeq(_)
TripleSeq(S) ==
  IF S = {} THEN <<>>
  ELSE LET m == CHOOSE x \in S : TRUE IN <<m>> \o TripleSeq(S \ {m})

\* the label lists of a match of ng games
LabelLists(ng) ==
  LET wins == {ri \in 0..(Len(MipSetup.replays) - 1) : ri + ng <= Len(MipSetup.replays)}
  IN UNION {{SortDesc(TripleSeq({<<f[ri], 0, ri>> : ri \in W})) : f \in [W -> LLVals]} :
              W \in {V \in SUBSET wins : Cardinality(V) <= MaxCands}}

InitMip ==
  /\ pc = "labelled"
  /\ setups = <<MipSetup>>
  /\ \E g1 \in MipGames :
       \/ /\ matches = <<PlannedMatch(<<1, 4>>, <<g1, 0>>, <<0, 1>>)>>
          /\ \E l1 \in LabelLists(g1) : all_labels = <<l1>>
       \/ \E g2 \in MipGames :
            /\ matches = <<PlannedMatch(<<1, 4>>, <<g1, 0>>, <<0, 1>>),
                           PlannedMatch(<<3, 2>>, <<g2, 0>>, <<0, 1>>)>>
            /\ \E l1 \in LabelLists(g1), l2 \in LabelLists(g2) : all_labels = <<l1, l2>>
  /\ forced = {}
  /\ mip = NoMip
  /\ rank = NoRank
  /\ sc = NoScore

NextMip == MipSolve \/ GetIndivRankings

SpecMip == InitMip /\ [][NextMip]_vars

----------------------------------------------------------------------------
(* Claims about the scoring model, checked under SpecScore *)

ScMatch == matches[1]
ScWindow == setups[1].replays
ScStartDiff == time_diff(ScWindow[1].start_time, ScMatch.started_at)
ScEndDiff == time_diff(ScMatch.completed_at, ScWindow[Len(ScWindow)].end_time)

\* C7 as stated: compute_time_ll is finite whenever both differences are at
\* least -TIME_SLACK, however large, and -inf whenever one is below it.
C7_FiniteAboveSlack ==
  pc = "scored" =>
    /\ (ScStartDiff >= 0 - TIME_SLACK /\ ScEndDiff >= 0 - TIME_SLACK) => sc.time_ll.fin
    /\ (ScStartDiff < 0 - TIME_SLACK \/ ScEndDiff < 0 - TIME_SLACK) => ~sc.time_ll.fin

\* either density evaluates to exactly 0.0 (the difference is so far in the
\* tail that the double underflows)
ScDensityZero ==
  \/ PdfIsZero(ScStartDiff, ANNOUNCE_TO_START_MEAN, ANNOUNCE_TO_START_SD)
  \/ PdfIsZero(ScEndDiff, END_TO_REPORT_MEAN, END_TO_REPORT_SD)

\* C7 amended: compute_time_ll is finite exactly when both differences are at
\* least -TIME_SLACK and neither density evaluates to zero; it is -inf when a
\* difference is below -TIME_SLACK or a density underflows to zero.
C7_FiniteUnlessUnderflow ==
  pc = "scored" =>
    (sc.time_ll.fin <=>
       (ScStartDiff >= 0 - TIME_SLACK /\ ScEndDiff >= 0 - TIME_SLACK /\ ~ScDensityZero))

\* a start difference exactly at the slack bound, with an end difference
\* far in the tail but short of the underflow, scored finite
C7_Witness ==
  /\ pc = "scored"
  /\ ScStartDiff = 0 - TIME_SLACK
  /\ ScEndDiff > 6000
  /\ sc.time_ll.fin

\* the window's games all have the same two occupied ports
ScSamePorts == \A k \in DOMAIN ScWindow : OccPorts(ScWindow[k]) = OccPorts(ScWindow[1])
ScPortA == CHOOSE i \in OccPorts(ScWindow[1]) : \A j \in OccPorts(ScWindow[1]) : i <= j
ScPortB == CHOOSE i \in OccPorts(ScWindow[1]) : \A j \in OccPorts(ScWindow[1]) : i >= j
\* the port with more wins, port b when the win counts are equal
ScWinner == IF Wins(ScWindow, ScPortA) > Wins(ScWindow, ScPortB) THEN ScPortA ELSE ScPortB
ScWinnerDiedLast == ScWindow[Len(ScWindow)].ports[ScWinner].dead_at_end

\* C8: when the winner port's character is dead at the end of the last game
\* of a window with consistent ports, compute_char_logprob and
\* compute_total_ll are -inf.
C8_WinnerDeadIsNegInf ==
  (pc = "scored" /\ ScSamePorts /\ ScWinnerDiedLast) =>
    (~sc.char_logprob.fin /\ ~sc.total_ll.fin)

\* the win counts fit the match score and the timing is fine, so only the
\* last-game test rejects the window
C8_Witness ==
  /\ pc = "scored"
  /\ ScSamePorts
  /\ ScWinnerDiedLast
  /\ Wins(ScWindow, ScPortA) = ScMatch.player1_score
  /\ Wins(ScWindow, ScPortB) = ScMatch.player2_score
  /\ Wins(ScWindow, ScPortA) # Wins(ScWindow, ScPortB)
  /\ sc.time_ll.fin
  /\ ~sc.char_logprob.fin

\* match' of C9: players 1 and 2 exchanged together with their scores
SwapPlayers(match) ==
  [match EXCEPT !.player1_id = match.player2_id, !.player2_id = match.player1_id,
                !.player1_score = match.player2_score,
                !.player2_score = match.player1_score]

\* games' of C9: in every game the contents of its two occupied ports exchanged
SwapPorts(replays) ==
  [k \in DOMAIN replays |->
     LET occ == OccPorts(replays[k])
     IN [replays[k] EXCEPT !.ports =
           [i \in Ports |-> IF i \in occ
                              THEN replays[k].ports[CHOOSE j \in occ : j # i]
                              ELSE replays[k].ports[i]]]]

\* C9: compute_char_logprob is unchanged when the two occupied ports are
\* exchanged in every game and the two players are exchanged with their scores.
C9_SwapInvariant ==
  pc = "scored" =>
    sc.char_logprob = compute_char_logprob(SwapPlayers(ScMatch), SwapPorts(ScWindow))

----------------------------------------------------------------------------
(* Claims about compute_all_labels, checked under Spec *)

\* the window of match i (from 1) at game ri (from 0) of setup si (from 0)
WindowAt(i, si, ri) ==
  SubSeq(setups[si + 1].replays, ri + 1, ri + matches[i].num_games)

\* the windows compute_all_labels has to score for match i: inside the setup,
\* every game with REQ_NUM_PLAYERS players
ScoredWindows(i) ==
  {w \in (0..(Len(setups) - 1)) \X (0..MaxReplays) :
     /\ w[2] + matches[i].num_games <= Len(setups[w[1] + 1].replays)
     /\ \A k \in 1..matches[i].num_games :
          setups[w[1] + 1].replays[w[2] + k].numplayers = REQ_NUM_PLAYERS}

C3_Expected(i) ==
  {<<compute_total_ll(matches[i], WindowAt(i, w[1], w[2])).v, w[1], w[2]>> :
     w \in {v \in ScoredWindows(i) :
              LET ll == compute_total_ll(matches[i], WindowAt(i, v[1], v[2]))
              IN ll.fin /\ ll.v >= NOLABEL_OBJVAL}}

\* C3: compute_all_labels emits for match mi exactly the triples (ll, si, ri)
\* whose window lies inside setup si, has num_games two-player games and
\* scores ll = compute_total_ll >= NOLABEL_OBJVAL, each exactly once.
C3_ExactlyTheValidWindows ==
  pc # "start" =>
    \A i \in DOMAIN matches :
      /\ {all_labels[i][k] : k \in DOMAIN all_labels[i]} = C3_Expected(i)
      /\ Len(all_labels[i]) = Cardinality(C3_Expected(i))

\* a match with a label, for which one scored window was finite but below
\* the no-label value and one window held a three-player game
C3_Witness ==
  /\ pc = "labelled"
  /\ Len(all_labels[1]) >= 1
  /\ \E w \in ScoredWindows(1) :
       LET ll == compute_total_ll(matches[1], WindowAt(1, w[1], w[2]))
       IN ll.fin /\ ll.v < NOLABEL_OBJVAL
  /\ \E k \in DOMAIN setups[1].replays : setups[1].replays[k].numplayers = 3

\* every window scored for match i is -inf
AllNegInf(i) ==
  \A w \in ScoredWindows(i) : ~compute_total_ll(matches[i], WindowAt(i, w[1], w[2])).fin

\* C5: a match whose windows all score -inf has no label after
\* compute_all_labels and is None in every soln mip_solve returns; alone it
\* gives the objective NOLABEL_OBJVAL, and when no match has a label the
\* objective is the number of matches times NOLABEL_OBJVAL.
C5_NoCandidateUnlabelled ==
  /\ \A i \in DOMAIN matches :
       (pc # "start" /\ AllNegInf(i)) =>
         /\ all_labels[i] = <<>>
         /\ (pc = "solved" /\ mip.status = "returned") =>
              /\ mip.soln[i] = NoLabel
              /\ Len(matches) = 1 => mip.objval = NOLABEL_OBJVAL
  /\ (pc = "solved" /\ mip.status = "returned"
        /\ \A i \in DOMAIN matches : all_labels[i] = <<>>) =>
       mip.objval = Len(matches) * NOLABEL_OBJVAL

\* the only match has scored windows, all -inf, and was solved
C5_Witness ==
  /\ pc = "solved"
  /\ Len(matches) = 1
  /\ ScoredWindows(1) # {}
  /\ AllNegInf(1)
  /\ mip.status = "returned"
  /\ mip.objval = NOLABEL_OBJVAL

\* the labels of match i when no finite score is pruned: every scored window
\* with a finite score, sorted as compute_all_labels sorts
FiniteLabels(i) ==
  SortDesc(TripleSeq(
    {<<compute_total_ll(matches[i], WindowAt(i, w[1], w[2])).v, w[1], w[2]>> :
       w \in {v \in ScoredWindows(i) :
                compute_total_ll(matches[i], WindowAt(i, v[1], v[2])).fin}}))

\* C11: pruning does not change the optimum: the objective mip_solve returns
\* on the labels compute_all_labels retains equals the objective it returns
\* on all the finite-score windows.
C11_PruningKeepsOptimum ==
  pc = "labelled" =>
    MipObjval(matches, all_labels, {})
      = MipObjval(matches, [i \in DOMAIN matches |-> FiniteLabels(i)], {})

\* a match kept a label, and a finite-score window of some match was pruned
C11_Witness ==
  /\ pc = "labelled"
  /\ \E i \in DOMAIN matches : Len(all_labels[i]) >= 1
  /\ \E i \in DOMAIN matches : Len(all_labels[i]) < Len(FiniteLabels(i))

----------------------------------------------------------------------------
(* Claims about mip_solve, checked under SpecMip *)

\* mip_solve returned the solution of a problem that has one
Solved == pc = "solved" /\ mip.status = "returned" /\ mip.feasible

\* game ri of setup si lies in the window of the label chosen for match i
Claims(i, si, ri) ==
  /\ mip.soln[i] # NoLabel
  /\ mip.soln[i][2] = si
  /\ mip.soln[i][3] <= ri
  /\ ri < mip.soln[i][3] + matches[i].num_games

\* C1: in a returned solution no game lies in the windows of the labels of
\* two different matches.
C1_NoSharedGame ==
  Solved =>
    \A i \in DOMAIN matches, k \in DOMAIN matches :
      i # k =>
        ~\E si \in 0..(Len(setups) - 1), ri \in 0..MaxReplays :
           Claims(i, si, ri) /\ Claims(k, si, ri)

\* two two-game matches whose only labels overlap in a game that starts
\* just one of them: one match is labelled, the other is not
C1_Witness ==
  /\ Solved
  /\ forced = {}
  /\ Len(matches) = 2
  /\ all_labels = <<(<<(<<-13000, 0, 0>>)>>), (<<(<<-13000, 0, 1>>)>>)>>
  /\ matches[1].num_games = 2
  /\ matches[2].num_games = 2
  /\ \E i \in 1..2 : mip.soln[i] # NoLabel

\* the columns of the labels of match i, and the column of its unlabelled variable
LabelColsOf(i) ==
  {j \in DOMAIN LabelVars(all_labels, 1) : LabelVars(all_labels, 1)[j].mi = i - 1}
UnlabelledCol(i) == Len(LabelVars(all_labels, 1)) + i

\* C2: in a returned solution every match has exactly one disposition: one
\* label variable at 1, the others and the unlabelled variable at 0, and
\* soln[mi] that label; or all label variables at 0, the unlabelled variable
\* at 1 and soln[mi] None.  (Column values are doubled.)
C2_OneDisposition ==
  Solved =>
    \A i \in DOMAIN matches :
      \/ \E j \in LabelColsOf(i) :
           /\ mip.x[j] = 2
           /\ \A k \in LabelColsOf(i) \ {j} : mip.x[k] = 0
           /\ mip.x[UnlabelledCol(i)] = 0
           /\ mip.soln[i] = <<LabelVars(all_labels, 1)[j].ll,
                               LabelVars(all_labels, 1)[j].si,
                               LabelVars(all_labels, 1)[j].ri>>
      \/ /\ \A k \in LabelColsOf(i) : mip.x[k] = 0
         /\ mip.x[UnlabelledCol(i)] = 2
         /\ mip.soln[i] = NoLabel

\* two matches with labels, one labelled and one left unlabelled
C2_Witness ==
  /\ Solved
  /\ Len(matches) = 2
  /\ Len(all_labels[1]) = 2
  /\ Len(all_labels[2]) >= 1
  /\ mip.soln[1] # NoLabel
  /\ mip.soln[2] = NoLabel

\* C4: the objective returned with one match forced unlabelled is at most the
\* objective returned with nothing forced.
C4_ForcedUnlabelledNotBetter ==
  (pc = "solved" /\ mip.status = "returned"
     /\ \E i \in DOMAIN matches : forced = {<<i - 1, NoneTag>>}) =>
    mip.objval <= MipObjval(matches, all_labels, {})

\* a match that the free optimum labels is forced unlabelled, and the
\* objective drops
C4_Witness ==
  /\ pc = "solved"
  /\ mip.status = "returned"
  /\ forced = {<<0, NoneTag>>}
  /\ Len(all_labels[1]) >= 1
  /\ mip.objval < MipObjval(matches, all_labels, {})

\* C6: when the problem handed to the backend has no solution, mip_solve
\* aborts instead of returning an (objval, soln) pair.
C6_AbortsWhenInfeasible ==
  (pc = "solved" /\ ~mip.feasible) => mip.status # "returned"

\* the single element of forced, when forced holds one element
TheForced == CHOOSE f \in forced : TRUE

\* soln gives the match of the forced element f what f asks for
Honours(f) ==
  IF Len(f) = 2 THEN mip.soln[f[1] + 1] = NoLabel
  ELSE /\ mip.soln[f[1] + 1] # NoLabel
       /\ mip.soln[f[1] + 1][2] = f[2]
       /\ mip.soln[f[1] + 1][3] = f[3]
       /\ \E k \in DOMAIN all_labels[f[1] + 1] :
            all_labels[f[1] + 1][k] = mip.soln[f[1] + 1]

\* C12: with one forced element taken from the candidate set, a label
\* (mi, si, ri) or (mi, None), the problem is feasible, mip_solve returns,
\* soln[mi] is the forced label, respectively None, and every match keeps one
\* disposition with no game shared.
C12_SingleForceHonoured ==
  (pc = "solved" /\ Cardinality(forced) = 1) =>
    /\ Solved
    /\ Honours(TheForced)
    /\ C1_NoSharedGame
    /\ C2_OneDisposition

\* a label is forced that the free optimum does not choose: the objective
\* drops, and the other match is labelled
C12_Witness ==
  /\ Solved
  /\ Cardinality(forced) = 1
  /\ Len(TheForced) = 3
  /\ Len(matches) = 2
  /\ Honours(TheForced)
  /\ mip.objval < MipObjval(matches, all_labels, {})
  /\ \E i \in DOMAIN matches : i # TheForced[1] + 1 /\ mip.soln[i] # NoLabel

----------------------------------------------------------------------------
(* Claims about get_indiv_rankings, checked under SpecMip *)

\* C10: with normalize=True and threshold=0, get_indiv_rankings returns one
\* probability per label of the match, plus one for the unlabelled option
\* when include_nolabel is set, each in [0, 1] and summing to 1 (to within
\* the rounding of the ten-thousandths).
C10_ProbabilitiesSumToOne ==
  (pc = "ranked" /\ rank.normalize /\ rank.threshold = 0) =>
    /\ rank.out.status = "returned"
    /\ Len(rank.out.rows) =
         Len(all_labels[rank.mi + 1]) + (IF rank.include_nolabel THEN 1 ELSE 0)
    /\ \A k \in DOMAIN rank.out.rows : rank.out.rows[k].p >= 0 /\ rank.out.rows[k].p <= 10000
    /\ SumSeq([k \in DOMAIN rank.out.rows |-> rank.out.rows[k].p]) <= 10000
    /\ SumSeq([k \in DOMAIN rank.out.rows |-> rank.out.rows[k].p])
         >= 10000 - Len(rank.out.rows)


\* the largest objective among the rows of the profile of match mi
ProfileMax(mi) ==
  LET profile == ProfileRows(matches, all_labels, mi)
  IN CHOOSE v \in {profile[k].key : k \in DOMAIN profile} :
       \A k \in DOMAIN profile : profile[k].key <= v

\* row is the disposition of match mi in some optimal assignment
OptimalDisposition(mi, row) ==
  \E o \in mip_solve(matches, all_labels, {}) :
    /\ o.status = "returned"
    /\ IF row.none THEN o.soln[mi + 1] = NoLabel
       ELSE /\ o.soln[mi + 1] # NoLabel
            /\ o.soln[mi + 1][2] = row.si
            /\ o.soln[mi + 1][3] = row.ri

\* the largest profile value of the ranked match is the free optimum
C13_ProfileMaxIsOptimum ==
  pc = "ranked" => ProfileMax(rank.mi) = MipObjval(matches, all_labels, {})

\* C13: for every match mi the largest profile value collected by
\* get_indiv_rankings with include_nolabel set equals the objective of
\* mip_solve with nothing forced, and the top-ranked row of the probability
\* table of mi is a disposition mi has in some optimal assignment.
C13_TopRowIsOptimal ==
  (pc = "ranked" /\ rank.include_nolabel /\ rank.normalize) =>
    /\ C13_ProfileMaxIsOptimum
    /\ rank.out.status = "returned"
    /\ Len(rank.out.rows) >= 1
    /\ OptimalDisposition(rank.mi, rank.out.rows[1])

\* whenever a table is returned, its top row is an optimal disposition
C13_TopRowWhenReturned ==
  (pc = "ranked" /\ rank.include_nolabel /\ rank.normalize
     /\ rank.out.status = "returned") =>
    /\ Len(rank.out.rows) >= 1
    /\ OptimalDisposition(rank.mi, rank.out.rows[1])


\* C14: get_indiv_rankings with normalize=True and include_nolabel=True
\* returns, without raising, a ranking sorted descending by probability, also
\* when the unlabelled row has the same probability as a candidate row.
C14_SortedWithoutRaising ==
  (pc = "ranked" /\ rank.include_nolabel /\ rank.normalize) =>
    /\ rank.out.status = "returned"
    /\ \A k \in 1..(Len(rank.out.rows) - 1) :
         rank.out.rows[k].key >= rank.out.rows[k + 1].key

\* whenever a ranking is returned it is sorted descending
C14_SortedWhenReturned ==
  (pc = "ranked" /\ rank.normalize /\ rank.out.status = "returned") =>
    \A k \in 1..(Len(rank.out.rows) - 1) :
      rank.out.rows[k].key >= rank.out.rows[k + 1].key


----------------------------------------------------------------------------
(* Claims about the constraint matrix, checked under SpecMip *)

\* the entries mip_solve wrote on the way to the current solution
Written == MipEntries(matches, all_labels)

\* C15: the entries written into ia/ja/ar number at most nze, no (row,
\* column) pair is written twice, every column index is in 1..N and every row
\* index in 1..M, and the unlabelled variable of match mi is column (number
\* of label variables) + mi + 1.
C15_EntriesWithinCapacity ==
  pc = "solved" =>
    \A W \in {Written}, nlv \in {Len(LabelVars(all_labels, 1))},
       cols \in {MipCols(matches, all_labels, forced)} :
      /\ Len(W) <= nze(matches, all_labels)
      /\ Cardinality({W[a] : a \in DOMAIN W}) = Len(W)
      /\ Len(cols) = N(matches, all_labels)
      /\ \A a \in DOMAIN W :
           /\ W[a][1] \in 1..M(matches, all_labels)
           /\ W[a][2] \in 1..Len(cols)
      /\ \A i \in DOMAIN matches :
           /\ <<i, nlv + i>> \in {W[a] : a \in DOMAIN W}
           /\ cols[nlv + i].kind = "CV"
           /\ \A a \in DOMAIN W : W[a][2] = nlv + i => W[a][1] = i

\* a two-game match and a one-game match whose labels fill the arrays to the
\* last slot
C15_Witness ==
  /\ pc = "solved"
  /\ Len(matches) = 2
  /\ \E i \in DOMAIN matches : matches[i].num_games = 2 /\ Len(all_labels[i]) >= 1
  /\ Len(Written) = nze(matches, all_labels)

====
